---- MODULE Spec2Model ----
(***************************************************************************)
(* Model of termtosvg/anim.py: the character-cell colour model, the        *)
(* run-length grouping of cells into rect and text tags, the definition    *)
(* store of make_animated_group and the animation composer                 *)
(* _render_animation.                                                      *)
(*                                                                         *)
(* Conventions.  A Python Optional is a sequence of length 0 (None) or 1.  *)
(* A Python str holding cell text is a sequence of code points, each code  *)
(* point a TLA+ string; attribute values are TLA+ strings.  An ordered     *)
(* Python dict is a sequence of [key, value] pairs in insertion order.     *)
(* An lxml element is a record [tag, attrib, text, children].              *)
(***************************************************************************)
EXTENDS Integers, Sequences, FiniteSets, TLC

VARIABLES
    \* ---- one call of _render_line_bg_colors / _render_characters
    screen_line,          \* Dict[int, CharacterCell]
    default_bg_color,     \* header.background_color
    rect_tags,            \* Optional result of _render_line_bg_colors
    text_tags,            \* Optional result of _render_characters
    \* ---- one call of CharacterCell.from_pyte
    char,                 \* pyte.screens.Char: [data, fg, bg, bold, reverse]
    palette,              \* [colors: 0..n-1 -> str, foreground, background]
    cell,                 \* Optional outcome of from_pyte
    \* ---- _render_animation
    pc,                   \* "idle", "loop", "done"
    run,                  \* number of invocations of _render_animation so far
    records,              \* the line events of the current invocation's stream
    header,               \* the CharacterCellConfig read first
    pos,                  \* number of line events consumed by groupby
    trees,                \* run -> document tree returned / being built
    definitions,          \* dict serialized fragment -> element
    last_animated_group,  \* index of the group in the screen's children, 0 = None
    animation_duration,   \* Optional int
    BG_RECT_TAG_parent,   \* the run whose tree holds the module-level BG_RECT_TAG, 0 = None
    \* resize_template
    data,                 \* the template resource handed to etree.parse
    screen_size,          \* <<columns, rows>> of the screen to fit
    resized               \* None before the call, then the root returned or the exception raised

line_vars == <<screen_line, default_bg_color, rect_tags, text_tags>>
color_vars == <<char, palette, cell>>
render_vars == <<pc, run, records, header, pos, trees, definitions,
                 last_animated_group, animation_duration, BG_RECT_TAG_parent>>
template_vars == <<data, screen_size, resized>>
vars == <<line_vars, color_vars, render_vars, template_vars>>

-----------------------------------------------------------------------------
(* Bounds and input sets *)

MaxCol == 3          \* columns of a line are 0 .. MaxCol-1
MaxRecords == 3      \* line events in one stream
MaxRuns == 2         \* successive invocations of _render_animation
MaxRunRecords == 1   \* line events in one stream when invocations succeed each other

CellWidth == 8
CellHeight == 17

None == <<>>
Some(v) == <<v>>

NBSP == "U+00A0"
SPACE == " "

Columns == 0 .. (MaxCol - 1)
Rows == {0, 1}
Colors == {"#000000", "#aa0000"}

Range(s) == {s[i] : i \in DOMAIN s}

-----------------------------------------------------------------------------
(* Python / lxml primitives *)

\* str(int)
Str(n) == ToString(n)

\* etree.Element(tag, attrib)
Element(tag, attrib) == [tag |-> tag, attrib |-> attrib, text |-> <<>>, children |-> <<>>]

\* an empty attribute dict
NoAttrib == [name \in {} |-> ""]

\* element.append(child) for a child that has no parent yet
Append_(el, child) == [el EXCEPT !.children = Append(@, child)]

\* str.replace(' ', ' ')
replace(text) == [i \in DOMAIN text |-> IF text[i] = SPACE THEN NBSP ELSE text[i]]

\* ''.join(strings)
RECURSIVE join(_)
join(strs) == IF strs = <<>> THEN <<>> ELSE Head(strs) \o join(Tail(strs))

\* The order in which the attributes of the modelled elements are written out.
AttrOrder == <<"id", "class", "display", "x", "y", "width", "height", "textLength",
               "lengthAdjust", "fill", "font-weight", "href", "type",
               "attributeName", "from", "to", "begin", "dur">>

\* the serialization of a code point of a text: ASCII as is, others as a character reference
SerializeChar(c) == IF c = NBSP THEN "&#160;" ELSE c

RECURSIVE SerializeText(_)
SerializeText(text) ==
    IF text = <<>> THEN "" ELSE SerializeChar(Head(text)) \o SerializeText(Tail(text))

RECURSIVE SerializeAttrs(_, _)
SerializeAttrs(attrib, names) ==
    IF names = <<>> THEN ""
    ELSE " " \o Head(names) \o "='" \o attrib[Head(names)] \o "'"
             \o SerializeAttrs(attrib, Tail(names))

\* etree.tostring(element): open tag with its attributes, text, children, close tag
RECURSIVE tostring(_)
RECURSIVE SerializeChildren(_)
SerializeChildren(children) ==
    IF children = <<>> THEN ""
    ELSE tostring(Head(children)) \o SerializeChildren(Tail(children))
tostring(el) ==
    "<" \o el.tag
        \o SerializeAttrs(el.attrib, SelectSeq(AttrOrder, LAMBDA n : n \in DOMAIN el.attrib))
        \o ">" \o SerializeText(el.text) \o SerializeChildren(el.children)
        \o "</" \o el.tag \o ">"

\* ordered dict operations
DictHas(d, k) == \E i \in DOMAIN d : d[i].key = k
DictGet(d, k) == d[CHOOSE i \in DOMAIN d : d[i].key = k].value
DictSet(d, k, v) ==
    IF DictHas(d, k)
    THEN [i \in DOMAIN d |-> IF d[i].key = k THEN [key |-> k, value |-> v] ELSE d[i]]
    ELSE Append(d, [key |-> k, value |-> v])
RECURSIVE DictUpdate(_, _)
DictUpdate(d, e) ==
    IF e = <<>> THEN d ELSE DictUpdate(DictSet(d, Head(e).key, Head(e).value), Tail(e))
DictValues(d) == [i \in DOMAIN d |-> d[i].value]

\* sorted(screen_line.items()): the (column, cell) pairs by ascending column
RECURSIVE SortedItems(_)
SortedItems(line) ==
    IF DOMAIN line = {} THEN <<>>
    ELSE LET c == CHOOSE m \in DOMAIN line : \A o \in DOMAIN line : m <= o
         IN <<<<c, line[c]>>>> \o SortedItems([o \in DOMAIN line \ {c} |-> line[o]])

-----------------------------------------------------------------------------
(* CharacterCell.from_pyte *)

_COLORS == <<"black", "red", "green", "brown", "blue", "magenta", "cyan", "white">>
_BRIGHTCOLORS == [i \in DOMAIN _COLORS |-> "bright" \o _COLORS[i]]
ALL_COLORS == _COLORS \o _BRIGHTCOLORS

\* color_numbers = dict(zip(ALL_COLORS, range(len(ALL_COLORS))))
in_color_numbers(name) == name \in Range(ALL_COLORS)
color_numbers(name) == (CHOOSE i \in DOMAIN ALL_COLORS : ALL_COLORS[i] = name) - 1

\* str.startswith
startswith(s, prefix) == Len(s) >= Len(prefix) /\ SubSeq(s, 1, Len(prefix)) = prefix

\* int(s, 16) returns (TRUE) or raises ValueError (FALSE), for s made of letters and digits
HexDigits == {"0", "1", "2", "3", "4", "5", "6", "7", "8", "9",
              "a", "b", "c", "d", "e", "f", "A", "B", "C", "D", "E", "F"}
int16_ok(s) == Len(s) > 0 /\ \A i \in 1 .. Len(s) : SubSeq(s, i, i) \in HexDigits

CharacterCell(text, color, background_color, bold) ==
    [text |-> text, color |-> color, background_color |-> background_color, bold |-> bold]

Raise(exc) == [raise |-> exc]
Return(v) == [return |-> v]
Raised(r) == "raise" \in DOMAIN r

\* lines 53-77: the text colour, or the exception raised
from_pyte_text_color(c, pal) ==
    IF c.fg = "default" THEN Return(pal.foreground)
    ELSE LET search_color == IF c.bold /\ ~ startswith(c.fg, "bright")
                             THEN "bright" \o c.fg ELSE c.fg
         IN IF in_color_numbers(search_color)
            THEN LET color_number == IF color_numbers(search_color) \in DOMAIN pal.colors
                                     THEN color_numbers(search_color)
                                     ELSE color_numbers(search_color) % 8
                 IN IF color_number \in DOMAIN pal.colors
                    THEN Return(pal.colors[color_number]) ELSE Raise("KeyError")
            ELSE IF Len(c.fg) = 6
                 THEN IF int16_ok(c.fg) THEN Return("#" \o c.fg) ELSE Raise("ValueError")
                 ELSE Raise("ValueError")

\* lines 79-90: the background colour, or the exception raised
from_pyte_background_color(c, pal) ==
    IF c.bg = "default" THEN Return(pal.background)
    ELSE IF in_color_numbers(c.bg)
         THEN IF color_numbers(c.bg) \in DOMAIN pal.colors
              THEN Return(pal.colors[color_numbers(c.bg)]) ELSE Raise("KeyError")
         ELSE IF Len(c.bg) = 6
              THEN IF int16_ok(c.bg) THEN Return("#" \o c.bg) ELSE Raise("ValueError")
              ELSE Raise("ValueError")

from_pyte(c, pal) ==
    LET text_color == from_pyte_text_color(c, pal)
        background_color == from_pyte_background_color(c, pal)
    IN IF Raised(text_color) THEN text_color
       ELSE IF Raised(background_color) THEN background_color
       ELSE IF c.reverse
            THEN Return(CharacterCell(c.data, background_color.return, text_color.return, c.bold))
            ELSE Return(CharacterCell(c.data, text_color.return, background_color.return, c.bold))

-----------------------------------------------------------------------------
(* ConsecutiveWithSameAttributes and itertools.groupby *)

\* ConsecutiveWithSameAttributes.__init__
NewKey(attributes) ==
    [group_index |-> None, last_index |-> None, attributes |-> attributes,
     last_key_attributes |-> None]

\* a plausible slip: a gap in the indices does not start a new group
KeyCall_IgnoreGap(self, arg) ==
    LET index == arg[1]
        obj == arg[2]
        key_attributes == [name \in self.attributes |-> obj[name]]
        group_index == IF self.last_key_attributes # Some(key_attributes)
                       THEN Some(index) ELSE self.group_index
    IN [self |-> [self EXCEPT !.group_index = group_index,
                              !.last_index = Some(index),
                              !.last_key_attributes = Some(key_attributes)],
        key |-> <<group_index[1], key_attributes>>]

\* a plausible slip: a change of attributes does not start a new group
KeyCall_IgnoreAttributes(self, arg) ==
    LET index == arg[1]
        obj == arg[2]
        key_attributes == [name \in self.attributes |-> obj[name]]
        group_index == IF self.last_index # Some(index - 1)
                       THEN Some(index) ELSE self.group_index
    IN [self |-> [self EXCEPT !.group_index = group_index,
                              !.last_index = Some(index),
                              !.last_key_attributes = Some(key_attributes)],
        key |-> <<group_index[1], key_attributes>>]

\* ConsecutiveWithSameAttributes.__call__: the new state of the callable and the key returned
KeyCall(self, arg) ==
    LET index == arg[1]
        obj == arg[2]
        key_attributes == [name \in self.attributes |-> obj[name]]
        group_index == IF self.last_index # Some(index - 1)
                          \/ self.last_key_attributes # Some(key_attributes)
                       THEN Some(index) ELSE self.group_index
    IN [self |-> [self EXCEPT !.group_index = group_index,
                              !.last_index = Some(index),
                              !.last_key_attributes = Some(key_attributes)],
        key |-> <<group_index[1], key_attributes>>]

\* itertools.groupby(items, key) with a ConsecutiveWithSameAttributes key: the sequence
\* of [key, group] with group the consecutive items that got an equal key
RECURSIVE groupbyLoop(_, _, _)
groupbyLoop(items, self, acc) ==
    IF items = <<>> THEN acc
    ELSE LET r == KeyCall(self, Head(items))
             n == Len(acc)
         IN groupbyLoop(Tail(items), r.self,
                IF n > 0 /\ acc[n].key = r.key
                THEN [acc EXCEPT ![n].group = Append(@, Head(items))]
                ELSE Append(acc, [key |-> r.key, group |-> <<Head(items)>>]))
groupby(items, attributes) == groupbyLoop(items, NewKey(attributes), <<>>)

-----------------------------------------------------------------------------
(* Shape builders *)

make_rect_tag(column, length, height, cell_width, cell_height, background_color) ==
    Element("rect", [x |-> Str(column * cell_width),
                     y |-> Str(height),
                     width |-> Str(length * cell_width),
                     height |-> Str(cell_height),
                     fill |-> background_color])

_render_line_bg_colors(line, height, cell_height, cell_width, default_bg) ==
    LET NonDefault(item) == item[2].background_color # default_bg
        non_default_bg_cells == SelectSeq(SortedItems(line), NonDefault)
        groups == groupby(non_default_bg_cells, {"background_color"})
    IN [i \in DOMAIN groups |->
            make_rect_tag(groups[i].key[1], Len(groups[i].group), height, cell_width,
                          cell_height, groups[i].key[2]["background_color"])]

make_text_tag(column, attributes, text, cell_width) ==
    LET text_tag_attributes ==
            [x |-> Str(column * cell_width),
             textLength |-> Str(Len(text) * cell_width),
             lengthAdjust |-> "spacingAndGlyphs",
             fill |-> attributes["color"]]
        with_bold == IF attributes["bold"]
                     THEN text_tag_attributes @@ ("font-weight" :> "bold")
                     ELSE text_tag_attributes
    IN [Element("text", with_bold) EXCEPT !.text = replace(text)]

_render_characters(line, cell_width) ==
    LET groups == groupby(SortedItems(line), {"color", "bold"})
    IN [i \in DOMAIN groups |->
            make_text_tag(groups[i].key[1], groups[i].key[2],
                          join([j \in DOMAIN groups[i].group |-> groups[i].group[j][2].text]),
                          cell_width)]

-----------------------------------------------------------------------------
(* make_animated_group *)

LAST_ANIMATION_ID == "anim_last"

\* a plausible slip: only the definitions of earlier buckets are searched
find_definition_NoPending(defs, new_definitions, text_group_tag_str) ==
    IF DictHas(defs, text_group_tag_str)
    THEN [fresh |-> FALSE, group_id |-> DictGet(defs, text_group_tag_str).attrib["id"]]
    ELSE [fresh |-> TRUE,
          group_id |-> "g" \o Str(Len(defs) + Len(new_definitions) + 1)]

\* a plausible slip: the counter spans the persisted definitions only
find_definition_IdFromDefs(defs, new_definitions, text_group_tag_str) ==
    IF DictHas(defs, text_group_tag_str)
    THEN [fresh |-> FALSE, group_id |-> DictGet(defs, text_group_tag_str).attrib["id"]]
    ELSE IF DictHas(new_definitions, text_group_tag_str)
    THEN [fresh |-> FALSE,
          group_id |-> DictGet(new_definitions, text_group_tag_str).attrib["id"]]
    ELSE [fresh |-> TRUE, group_id |-> "g" \o Str(Len(defs) + 1)]

\* lines 285-290: the id of the definition of a serialized text group, and whether it is
\* a new one (the assert of line 291 compares a str with elements and never fails)
find_definition(defs, new_definitions, text_group_tag_str) ==
    IF DictHas(defs, text_group_tag_str)
    THEN [fresh |-> FALSE, group_id |-> DictGet(defs, text_group_tag_str).attrib["id"]]
    ELSE IF DictHas(new_definitions, text_group_tag_str)
    THEN [fresh |-> FALSE,
          group_id |-> DictGet(new_definitions, text_group_tag_str).attrib["id"]]
    ELSE [fresh |-> TRUE,
          group_id |-> "g" \o Str(Len(defs) + Len(new_definitions) + 1)]

\* one iteration of the loop over records (lines 267-301): st is the group built so
\* far and the new definitions
make_animated_group_record(st, event_record, cell_height, cell_width, default_bg, defs) ==
    LET rects == _render_line_bg_colors(event_record.line, event_record.row * cell_height,
                                        cell_height, cell_width, default_bg)
        text_group_tag == [Element("g", NoAttrib) EXCEPT
                              !.children = _render_characters(event_record.line, cell_width)]
        text_group_tag_str == tostring(text_group_tag)
        found == find_definition(defs, st.new_definitions, text_group_tag_str)
        use_tag == Element("use", [href |-> "#" \o found.group_id,
                                   y |-> Str(event_record.row * cell_height)])
    IN [group |-> [st.group EXCEPT !.children = (@ \o rects) \o <<use_tag>>],
        new_definitions |->
            IF found.fresh
            THEN DictSet(st.new_definitions, text_group_tag_str,
                         [text_group_tag EXCEPT !.attrib = ("id" :> found.group_id)])
            ELSE st.new_definitions]

RECURSIVE make_animated_group_loop(_, _, _, _, _, _)
make_animated_group_loop(st, recs, cell_height, cell_width, default_bg, defs) ==
    IF recs = <<>> THEN st
    ELSE make_animated_group_loop(
             make_animated_group_record(st, Head(recs), cell_height, cell_width,
                                        default_bg, defs),
             Tail(recs), cell_height, cell_width, default_bg, defs)

\* a plausible slip: no case for the animations starting at 0ms
begin_time_NoZeroCase(time) ==
    Str(time) \o "ms; " \o LAST_ANIMATION_ID \o ".end+" \o Str(time) \o "ms"

\* lines 305-309
begin_time(time) ==
    IF time = 0
    THEN "0ms; " \o LAST_ANIMATION_ID \o ".end"
    ELSE Str(time) \o "ms; " \o LAST_ANIMATION_ID \o ".end+" \o Str(time) \o "ms"

make_animated_group(recs, time, duration, cell_height, cell_width, default_bg, defs) ==
    LET st == make_animated_group_loop(
                  [group |-> Element("g", [display |-> "none"]), new_definitions |-> <<>>],
                  recs, cell_height, cell_width, default_bg, defs)
        animation == Element("animate", [attributeName |-> "display",
                                         from |-> "inline",
                                         to |-> "inline",
                                         begin |-> begin_time(time),
                                         dur |-> Str(duration) \o "ms",
                                         fill |-> "remove"])
    IN [group |-> Append_(st.group, animation), new_definitions |-> st.new_definitions]

-----------------------------------------------------------------------------
(* _render_animation *)

\* the module-level element BG_RECT_TAG
BG_RECT_TAG ==
    Element("rect", [class |-> "background", height |-> "100%", width |-> "100%",
                     x |-> "0", y |-> "0"])

\* build_style_tag, its css text reduced to the entry that depends on the arguments
build_style_tag(background_color) ==
    [Element("style", [type |-> "text/css"]) EXCEPT
        !.text = <<".background {fill: ", background_color, "}">>]

\* by_time
by_time(record) == <<record.time, record.duration>>

\* a plausible slip: every record makes a group of its own
GroupEnd_NoCoalesce(recs, first) == first

\* the end of the group groupby yields next: the last index of the run of records with
\* the key of records[first]
RECURSIVE GroupEnd(_, _)
GroupEnd(recs, first) ==
    IF first < Len(recs) /\ by_time(recs[first + 1]) = by_time(recs[first])
    THEN GroupEnd(recs, first + 1) ELSE first

\* parent.remove(child) / the move an append of an element that has a parent does
RemoveBgRect(children) == SelectSeq(children, LAMBDA e : e # BG_RECT_TAG)

\* add_css_variables: the text of the generated style
css_variables(foreground_color, background_color, duration) ==
    <<"--foreground-color: ", foreground_color,
      "--background-color: ", background_color,
      "--animation-duration: ", (IF duration = None THEN "None" ELSE Str(duration[1])) \o "ms">>

\* lines 405-431: read the header, load the template, empty the screen, add the
\* definitions element with the style and the background rect.  The template is taken
\* to be well formed: resize_template returns a root whose screen is then emptied.
Enter(hdr, recs) ==
    /\ run' = run + 1
    /\ header' = Some(hdr)
    /\ records' = recs
    /\ pos' = 0
    /\ LET def_tag == Append_(Element("defs", NoAttrib),
                              build_style_tag(hdr.background_color))
           root == [screen |-> <<def_tag, BG_RECT_TAG>>, generated_style |-> <<>>]
           others == [r \in DOMAIN trees |->
                         IF r = BG_RECT_TAG_parent
                         THEN [trees[r] EXCEPT !.screen = RemoveBgRect(@)]
                         ELSE trees[r]]
       IN trees' = Append(others, root)
    /\ BG_RECT_TAG_parent' = run + 1
    /\ definitions' = <<>>
    /\ last_animated_group' = 0
    /\ animation_duration' = None
    /\ pc' = "loop"
    /\ UNCHANGED <<line_vars, color_vars, template_vars>>

\* a plausible slip: the duration of the last bucket alone
presentation_end_DurationOnly(line_time, line_duration) == line_duration

\* line 446: the presentation duration after a bucket
presentation_end(line_time, line_duration) == line_time + line_duration

\* lines 432-446: one iteration of the loop over groupby(records, key=by_time)
Bucket ==
    /\ pc = "loop"
    /\ pos < Len(records)
    /\ LET last == GroupEnd(records, pos + 1)
           record_group == SubSeq(records, pos + 1, last)
           line_time == by_time(records[pos + 1])[1]
           line_duration == by_time(records[pos + 1])[2]
           r == make_animated_group(record_group, line_time, line_duration, CellHeight,
                                    CellWidth, header[1].background_color, definitions)
           new_defs == r.new_definitions
           screen == trees[run].screen
           def_tag == [screen[1] EXCEPT !.children = @ \o DictValues(new_defs)]
       IN /\ definitions' = DictUpdate(definitions, new_defs)
          /\ trees' = [trees EXCEPT ![run].screen =
                           Append([screen EXCEPT ![1] = def_tag], r.group)]
          /\ last_animated_group' = Len(screen) + 1
          /\ animation_duration' = Some(presentation_end(line_time, line_duration))
          /\ pos' = last
    /\ UNCHANGED <<pc, run, records, header, BG_RECT_TAG_parent, line_vars, color_vars, template_vars>>

\* a plausible slip: the id is set on the group instead of its animate child
TagLastAnimation_OnGroup(group) == [group EXCEPT !.attrib = ("id" :> LAST_ANIMATION_ID) @@ @]

\* lines 450-453 applied to a group: the id on the last of its animate children
TagLastAnimation(group) ==
    LET animate_tags == {i \in DOMAIN group.children : group.children[i].tag = "animate"}
        popped == CHOOSE i \in animate_tags : \A j \in animate_tags : j <= i
    IN [group EXCEPT !.children[popped].attrib = ("id" :> LAST_ANIMATION_ID) @@ @]

\* lines 448-457: the stream is exhausted; tag the last animation, add the css variables,
\* return the root
Finish ==
    /\ pc = "loop"
    /\ pos = Len(records)
    /\ LET tagged == IF last_animated_group # 0
                     THEN [trees[run].screen EXCEPT ![last_animated_group] = TagLastAnimation(@)]
                     ELSE trees[run].screen
       IN trees' = [trees EXCEPT ![run] =
                       [screen |-> tagged,
                        generated_style |-> css_variables(header[1].text_color,
                                                          header[1].background_color,
                                                          animation_duration)]]
    /\ pc' = "done"
    /\ UNCHANGED <<run, records, header, pos, definitions, last_animated_group,
                   animation_duration, BG_RECT_TAG_parent, line_vars, color_vars, template_vars>>

-----------------------------------------------------------------------------
(* Values of the variables a specification does not use *)

-----------------------------------------------------------------------------
(* resize_template, lines 331-399 *)

\* str.replace(old, new) for one-character old and new
RECURSIVE str_replace(_, _, _)
str_replace(s, old, new) ==
    IF Len(s) = 0 THEN ""
    ELSE (IF SubSeq(s, 1, 1) = old THEN new ELSE SubSeq(s, 1, 1))
             \o str_replace(SubSeq(s, 2, Len(s)), old, new)

\* str.split(): the maximal runs of non-blank characters
RECURSIVE split_loop(_, _, _)
split_loop(s, word, words) ==
    IF Len(s) = 0 THEN (IF Len(word) = 0 THEN words ELSE Append(words, word))
    ELSE IF SubSeq(s, 1, 1) = SPACE
         THEN split_loop(SubSeq(s, 2, Len(s)), "",
                         IF Len(word) = 0 THEN words ELSE Append(words, word))
         ELSE split_loop(SubSeq(s, 2, Len(s)), word \o SubSeq(s, 1, 1), words)
split(s) == split_loop(s, "", <<>>)

\* ' '.join(strings)
RECURSIVE join_blank(_)
join_blank(strs) ==
    IF Len(strs) = 0 THEN ""
    ELSE IF Len(strs) = 1 THEN Head(strs)
    ELSE Head(strs) \o SPACE \o join_blank(Tail(strs))

\* str.strip()
RECURSIVE strip(_)
strip(s) ==
    IF Len(s) = 0 THEN s
    ELSE IF SubSeq(s, 1, 1) = SPACE THEN strip(SubSeq(s, 2, Len(s)))
    ELSE IF SubSeq(s, Len(s), Len(s)) = SPACE THEN strip(SubSeq(s, 1, Len(s) - 1))
    ELSE s

DecDigits == <<"0", "1", "2", "3", "4", "5", "6", "7", "8", "9">>
DigitValue(c) == (CHOOSE i \in DOMAIN DecDigits : DecDigits[i] = c) - 1

RECURSIVE int_digits(_, _)
int_digits(s, acc) ==
    IF Len(s) = 0 THEN acc
    ELSE int_digits(SubSeq(s, 2, Len(s)), 10 * acc + DigitValue(SubSeq(s, 1, 1)))

\* int(s): blanks around, an optional sign, then decimal digits; ValueError otherwise
int(s) ==
    LET t == strip(s)
        signed == Len(t) > 0 /\ SubSeq(t, 1, 1) \in {"+", "-"}
        digits == IF signed THEN SubSeq(t, 2, Len(t)) ELSE t
    IN IF Len(digits) > 0 /\ \A i \in 1 .. Len(digits) : SubSeq(digits, i, i) \in Range(DecDigits)
       THEN Return(IF signed /\ SubSeq(t, 1, 1) = "-"
                   THEN 0 - int_digits(digits, 0) ELSE int_digits(digits, 0))
       ELSE Raise("ValueError")

\* lines 350-356: one turn of the loop over scalable_attributes
scale_attribute(outcome, attribute, delta) ==
    IF Raised(outcome) \/ attribute \notin DOMAIN outcome.return THEN outcome
    ELSE LET n == int(outcome.return[attribute])
         IN IF Raised(n) THEN Raise("TemplateError")
            ELSE Return([outcome.return EXCEPT ![attribute] = Str(n.return + delta)])

\* lines 333-356: scale applied to the attributes of an element; the element with its
\* attributes rewritten, or the exception that leaves the function
scale(attrib, template_columns, template_rows, columns, rows) ==
    IF "viewBox" \notin DOMAIN attrib THEN Raise("TemplateError")
    ELSE LET viewbox == split(str_replace(attrib["viewBox"], ",", SPACE))
             numbers == [i \in DOMAIN viewbox |-> int(viewbox[i])]
         IN IF (\E i \in DOMAIN numbers : Raised(numbers[i])) \/ Len(viewbox) # 4
            THEN Raise("ValueError")
            ELSE LET vb_width == numbers[3].return + CellWidth * (columns - template_columns)
                     vb_height == numbers[4].return + CellHeight * (rows - template_rows)
                     scaled == [attrib EXCEPT !["viewBox"] =
                                    join_blank(<<Str(numbers[1].return), Str(numbers[2].return),
                                                 Str(vb_width), Str(vb_height)>>)]
                 IN scale_attribute(
                        scale_attribute(Return(scaled), "width",
                                        CellWidth * (columns - template_columns)),
                        "height", CellHeight * (rows - template_rows))

\* settings.find('screen_geometry[@columns][@rows]'): the element, if it has both attributes
find_geometry(settings) ==
    IF settings.geometry # None
       /\ {"columns", "rows"} \subseteq DOMAIN settings.geometry[1]
    THEN settings.geometry ELSE None

\* lines 331-399: the root returned, or the exception raised
resize_template(template, columns, rows) ==
    IF ~ template.parses THEN Raise("TemplateError")
    ELSE IF template.settings = None THEN Raise("TemplateError")
    ELSE LET geometry == find_geometry(template.settings[1])
         IN IF geometry = None THEN Raise("TemplateError")
            ELSE LET template_columns == int(geometry[1]["columns"])
                     template_rows == int(geometry[1]["rows"])
                 IN IF Raised(template_columns) \/ Raised(template_rows)
                    THEN Raise("TemplateError")
                    ELSE IF template_rows.return <= 0 \/ template_columns.return <= 0
                    THEN Raise("TemplateError")
                    ELSE LET root == scale(template.root, template_columns.return,
                                           template_rows.return, columns, rows)
                         IN IF Raised(root) THEN root
                            ELSE IF template.screen = None THEN Raise("TemplateError")
                            ELSE LET screen == scale(template.screen[1], template_columns.return,
                                                     template_rows.return, columns, rows)
                                 IN IF Raised(screen) THEN screen
                                    ELSE Return([parses |-> TRUE,
                                                 root |-> root.return,
                                                 settings |-> None,
                                                 screen |-> Some(screen.return)])

-----------------------------------------------------------------------------
TemplateIdle ==
    /\ data = None
    /\ screen_size = None
    /\ resized = None

LineIdle ==
    /\ screen_line = <<>>
    /\ default_bg_color = None
    /\ rect_tags = None
    /\ text_tags = None

ColorIdle ==
    /\ char = None
    /\ palette = None
    /\ cell = None

RenderIdle ==
    /\ pc = "idle"
    /\ run = 0
    /\ records = <<>>
    /\ header = None
    /\ pos = 0
    /\ trees = <<>>
    /\ definitions = <<>>
    /\ last_animated_group = 0
    /\ animation_duration = None
    /\ BG_RECT_TAG_parent = 0

-----------------------------------------------------------------------------
(* SpecLine: the two per-line renderers applied to one line *)

LineTexts == {<<"a">>, <<>>}
LineCells == [text : LineTexts, color : Colors, background_color : Colors, bold : BOOLEAN]
Lines == UNION {[S -> LineCells] : S \in SUBSET Columns}

LineInit ==
    /\ screen_line \in Lines
    /\ default_bg_color \in Colors
    /\ rect_tags = None
    /\ text_tags = None
    /\ ColorIdle
    /\ RenderIdle
    /\ TemplateIdle

RenderLineBg ==
    /\ rect_tags = None
    /\ text_tags = None
    /\ \E row \in Rows :
          rect_tags' = Some(_render_line_bg_colors(screen_line, row * CellHeight, CellHeight,
                                                   CellWidth, default_bg_color))
    /\ UNCHANGED <<screen_line, default_bg_color, text_tags, color_vars, render_vars, template_vars>>

RenderCharacters ==
    /\ rect_tags = None
    /\ text_tags = None
    /\ text_tags' = Some(_render_characters(screen_line, CellWidth))
    /\ UNCHANGED <<screen_line, default_bg_color, rect_tags, color_vars, render_vars, template_vars>>

LineNext == RenderLineBg \/ RenderCharacters

SpecLine == LineInit /\ [][LineNext]_vars

-----------------------------------------------------------------------------
(* Claims about the per-line renderers (SpecLine) *)

\* the columns first .. last are all present in the line
Present(line, first, last) == \A c \in first .. last : c \in DOMAIN line

\* the (color, bold) of a column
TextAttrs(line, c) == <<line[c].color, line[c].bold>>

\* first .. last is a maximal run of contiguous columns sharing (color, bold)
IsTextRun(line, first, last) ==
    /\ first <= last
    /\ Present(line, first, last)
    /\ \A c \in first .. last : TextAttrs(line, c) = TextAttrs(line, first)
    /\ ~ (first - 1 \in DOMAIN line /\ TextAttrs(line, first - 1) = TextAttrs(line, first))
    /\ ~ (last + 1 \in DOMAIN line /\ TextAttrs(line, last + 1) = TextAttrs(line, last))

\* the text tags positioned at column c
TagsAt(tags, c) == {i \in DOMAIN tags : tags[i].attrib["x"] = Str(c * CellWidth)}

\* the text tags positioned at a column of first .. last
TagsIn(tags, first, last) == UNION {TagsAt(tags, c) : c \in first .. last}

\* C8: a maximal run of N consecutive columns sharing (color, bold) yields exactly one
\* text tag, at x = start_column*cell_width, whose textLength is N*cell_width, whatever
\* the text of its cells.
C8_RunHasForcedWidth ==
    text_tags # None =>
        \A first \in Columns, last \in Columns :
            IsTextRun(screen_line, first, last) =>
                /\ Cardinality(TagsIn(text_tags[1], first, last)) = 1
                /\ \A i \in TagsAt(text_tags[1], first) :
                       text_tags[1][i].attrib["textLength"]
                           = Str((last - first + 1) * CellWidth)

\* first .. last is a run of contiguous columns, not extendable on either side, uniform
\* in (color, bold) except for its column p
IsSplitRun(line, first, last, p) ==
    /\ first < last
    /\ p \in first .. last
    /\ Present(line, first, last)
    /\ \A c, d \in (first .. last) \ {p} : TextAttrs(line, c) = TextAttrs(line, d)
    /\ \A c \in (first .. last) \ {p} : TextAttrs(line, c) # TextAttrs(line, p)
    /\ ~ (first - 1 \in DOMAIN line /\ TextAttrs(line, first - 1) = TextAttrs(line, first))
    /\ ~ (last + 1 \in DOMAIN line /\ TextAttrs(line, last + 1) = TextAttrs(line, last))

\* C9 as stated: a run with a one-column attribute difference yields two text tags,
\* for every position of the differing column.
C9_SplitsInTwoEverywhere ==
    text_tags # None =>
        \A first \in Columns, last \in Columns, p \in Columns :
            IsSplitRun(screen_line, first, last, p) =>
                Cardinality(TagsIn(text_tags[1], first, last)) = 2

\* C9 amended: two text tags when the differing column is the first or the last of the
\* run, three (left part, differing column, right part) when it is inside the run.
C9_SplitsAroundColumn ==
    text_tags # None =>
        \A first \in Columns, last \in Columns, p \in Columns :
            IsSplitRun(screen_line, first, last, p) =>
                /\ Cardinality(TagsIn(text_tags[1], first, last))
                       = IF p \in {first, last} THEN 2 ELSE 3
                /\ TagsAt(text_tags[1], p) # {}
                /\ \A i \in TagsAt(text_tags[1], p) :
                       /\ text_tags[1][i].attrib["fill"] = screen_line[p].color
                       /\ ("font-weight" \in DOMAIN text_tags[1][i].attrib) = screen_line[p].bold

C9_Witness ==
    /\ text_tags # None
    /\ \E first \in Columns, last \in Columns, p \in Columns :
          /\ IsSplitRun(screen_line, first, last, p)
          /\ first < p
          /\ p < last
          /\ Cardinality(TagsIn(text_tags[1], first, last)) = 3

\* the background colour of a column that needs a rect, None otherwise
NeedsRect(line, default_bg, c) == c \in DOMAIN line /\ line[c].background_color # default_bg

\* first .. last is a maximal run of contiguous columns with one non-default background
IsBgRun(line, default_bg, first, last) ==
    /\ first <= last
    /\ \A c \in first .. last :
           /\ NeedsRect(line, default_bg, c)
           /\ line[c].background_color = line[first].background_color
    /\ ~ (NeedsRect(line, default_bg, first - 1)
            /\ line[first - 1].background_color = line[first].background_color)
    /\ ~ (NeedsRect(line, default_bg, last + 1)
            /\ line[last + 1].background_color = line[last].background_color)

\* the rect spans exactly the columns first .. last
RectSpans(rect, first, last) ==
    /\ rect.attrib["x"] = Str(first * CellWidth)
    /\ rect.attrib["width"] = Str((last - first + 1) * CellWidth)

\* the rect lies over column c
RectCovers(rect, c) ==
    \E first \in 0 .. c, last \in c .. MaxCol : RectSpans(rect, first, last)

\* C10: the background rects cover exactly the columns whose background differs from the
\* default: each such column lies in exactly one rect, filled with its colour and spanning
\* its maximal run; no default-background or absent column lies in a rect.
C10_RectsCoverNonDefault ==
    rect_tags # None =>
        LET rects == rect_tags[1]
        IN /\ \A i \in DOMAIN rects :
                  \E first \in Columns, last \in Columns : RectSpans(rects[i], first, last)
           /\ \A c \in 0 .. MaxCol :
                  IF NeedsRect(screen_line, default_bg_color, c)
                  THEN /\ Cardinality({i \in DOMAIN rects : RectCovers(rects[i], c)}) = 1
                       /\ \A i \in DOMAIN rects :
                              RectCovers(rects[i], c) =>
                                  /\ rects[i].attrib["fill"] = screen_line[c].background_color
                                  /\ \E first \in Columns, last \in Columns :
                                         /\ IsBgRun(screen_line, default_bg_color, first, last)
                                         /\ c \in first .. last
                                         /\ RectSpans(rects[i], first, last)
                  ELSE \A i \in DOMAIN rects : ~ RectCovers(rects[i], c)

C10_Witness ==
    /\ rect_tags # None
    /\ Len(rect_tags[1]) = 1
    /\ \E c \in Columns :
          /\ c + 2 \in Columns
          /\ RectSpans(rect_tags[1][1], c + 1, c + 2)
          /\ c \in DOMAIN screen_line
          /\ screen_line[c].background_color = default_bg_color

-----------------------------------------------------------------------------
(* SpecColor: CharacterCell.from_pyte applied to one pyte character *)

\* the colours of a 16-colour theme, then its foreground and background
ThemeColors == <<"#1c1c1c", "#d81e00", "#5ea702", "#cfae00", "#427ab3", "#89658e",
                 "#00a7aa", "#dbded8", "#686a66", "#f54235", "#99e343", "#fdeb61",
                 "#84b0d8", "#bc94b7", "#37e6e8", "#f1f1f0">>
ThemeForeground == "#93a1a1"
ThemeBackground == "#002b36"

\* palettes with the 8 base indices and up to all 16
Palettes ==
    {[colors |-> [i \in 0 .. (n - 1) |-> ThemeColors[i + 1]],
      foreground |-> ThemeForeground, background |-> ThemeBackground]
        : n \in Len(_COLORS) .. Len(ALL_COLORS)}

\* colour descriptors: the 16 names, default, a hexadecimal colour, and invalid ones
Descriptors == Range(ALL_COLORS) \cup {"default", "00ff7f", "yellow", "pink"}

Chars == [data : {<<"a">>}, fg : Descriptors, bg : Descriptors,
          bold : BOOLEAN, reverse : BOOLEAN]

ColorInit ==
    /\ char \in Chars
    /\ palette \in Palettes
    /\ cell = None
    /\ LineIdle
    /\ RenderIdle
    /\ TemplateIdle

FromPyte ==
    /\ cell = None
    /\ cell' = Some(from_pyte(char, palette))
    /\ UNCHANGED <<char, palette, line_vars, render_vars, template_vars>>

ColorNext == FromPyte

SpecColor == ColorInit /\ [][ColorNext]_vars

\* the index of a name after bold promotion
PromotedIndex(name, bold) ==
    IF bold /\ ~ startswith(name, "bright") THEN color_numbers("bright" \o name)
    ELSE color_numbers(name)

\* palette[i] when i is in the palette, palette[i mod 8] otherwise
WithFallback(pal, i) ==
    IF i \in DOMAIN pal.colors THEN pal.colors[i] ELSE pal.colors[i % 8]

\* C7: with a palette of at least the 8 base indices, a symbolic name used as text colour
\* or as background colour resolves, to palette[i] when i is in the palette and to
\* palette[i mod 8] otherwise; i is the index of the name, after bold promotion for the
\* text colour.
C7_NamedColorsResolve ==
    cell # None =>
        LET r == cell[1]
            fg_named == in_color_numbers(char.fg)
            bg_named == in_color_numbers(char.bg)
        IN /\ (fg_named /\ (bg_named \/ char.bg \in {"default", "00ff7f"})) =>
                  /\ ~ Raised(r)
                  /\ (IF char.reverse THEN r.return.background_color ELSE r.return.color)
                         = WithFallback(palette, PromotedIndex(char.fg, char.bold))
           /\ (bg_named /\ (fg_named \/ char.fg \in {"default"})) =>
                  /\ ~ Raised(r)
                  /\ (IF char.reverse THEN r.return.color ELSE r.return.background_color)
                         = WithFallback(palette, color_numbers(char.bg))

-----------------------------------------------------------------------------
(* Spec: one invocation of _render_animation; SpecRuns: successive invocations *)

\* the lines of the streams: one cell holding a letter (on a background of its own), a
\* space or a non-breaking space
RenderTexts == {<<"a">>, <<SPACE>>, <<NBSP>>}
RenderLines ==
    {(0 :> CharacterCell(t, "#aa0000", IF t = <<"a">> THEN "#aa0000" ELSE "#000000", FALSE)) :
        t \in RenderTexts}

\* the (time, duration) of the line events
Timings == {<<0, 3>>, <<1, 1>>}

LineEvents ==
    {[row |-> r, line |-> l, time |-> t[1], duration |-> t[2]] :
        r \in Rows, l \in RenderLines, t \in Timings}

Streams == UNION {[1 .. n -> LineEvents] : n \in 0 .. MaxRecords}

Headers ==
    [width : {80}, height : {24}, text_color : {"#aa0000"}, background_color : {"#000000"}]

Init ==
    /\ RenderIdle
    /\ LineIdle
    /\ ColorIdle
    /\ TemplateIdle

Call ==
    /\ pc = "idle"
    /\ \E hdr \in Headers, recs \in Streams : Enter(hdr, recs)

Next == Call \/ Bucket \/ Finish

Spec == Init /\ [][Next]_vars

\* successive invocations, on streams of at most MaxRunRecords line events
RunStreams == {recs \in Streams : Len(recs) <= MaxRunRecords}

FirstCall ==
    /\ pc = "idle"
    /\ \E hdr \in Headers, recs \in RunStreams : Enter(hdr, recs)

CallAgain ==
    /\ pc = "done"
    /\ run < MaxRuns
    /\ \E hdr \in Headers, recs \in RunStreams : Enter(hdr, recs)

RunsNext == FirstCall \/ Bucket \/ Finish \/ CallAgain

SpecRuns == Init /\ [][RunsNext]_vars

-----------------------------------------------------------------------------
(* Claims about one render pass (Spec) *)

\* the screen element of the document being built or just returned
Screen == trees[run].screen

\* the definitions registered in the screen's defs element
RegisteredDefs == SelectSeq(Screen[1].children, LAMBDA e : e.tag = "g")

\* the visibility groups appended to the screen, in document order
AnimatedGroups == SelectSeq(Screen, LAMBDA e : e.tag = "g")

UsesOf(group) == SelectSeq(group.children, LAMBDA e : e.tag = "use")
AnimationsOf(group) == SelectSeq(group.children, LAMBDA e : e.tag = "animate")

\* the reference elements of the document, in document order: the i-th belongs to the
\* i-th line event consumed
RECURSIVE Concat(_)
Concat(seqs) == IF seqs = <<>> THEN <<>> ELSE Head(seqs) \o Concat(Tail(seqs))
AllUses == Concat([g \in DOMAIN AnimatedGroups |-> UsesOf(AnimatedGroups[g])])

\* the serialized text-group fragment of a line
Fragment(line) ==
    tostring([Element("g", NoAttrib) EXCEPT !.children = _render_characters(line, CellWidth)])

\* the serialized content of a registered definition, without its id
DefFragment(def) == tostring([def EXCEPT !.attrib = NoAttrib])

\* C1: line events with an identical serialized fragment are referenced through the same
\* definition id, in one bucket or across buckets; each fragment is registered exactly
\* once, and an id is allocated only for a fragment not seen before.
C1_SameFragmentSameId ==
    run >= 1 =>
        LET uses == AllUses
            regs == RegisteredDefs
            \* <<fragment, id referenced>> of the line events consumed
            refs == {<<Fragment(records[i].line), uses[i].attrib["href"]>> : i \in 1 .. pos}
            \* <<fragment, reference to the id, position>> of the definitions registered
            registered == {<<DefFragment(regs[d]), "#" \o regs[d].attrib["id"], d>> :
                              d \in DOMAIN regs}
        IN /\ Len(uses) = pos
           /\ \A a, b \in refs : a[1] = b[1] => a[2] = b[2]
           /\ \A a \in refs :
                  /\ Cardinality({r \in registered : r[1] = a[1]}) = 1
                  /\ \A r \in registered : r[1] = a[1] => r[2] = a[2]
           /\ Len(regs) = Cardinality({a[1] : a \in refs})
           /\ Len(definitions) = Len(regs)

C1_Witness ==
    /\ pc = "done"
    /\ Len(AnimatedGroups) = 2
    /\ Len(RegisteredDefs) = 1
    /\ Len(UsesOf(AnimatedGroups[1])) = 2
    /\ Len(UsesOf(AnimatedGroups[2])) = 1

\* two lines differ in some column: in its presence, cell text, colour or bold flag
LinesDiffer(l1, l2) ==
    \/ DOMAIN l1 # DOMAIN l2
    \/ \E c \in DOMAIN l1 \cap DOMAIN l2 :
          \/ l1[c].text # l2[c].text
          \/ l1[c].color # l2[c].color
          \/ l1[c].bold # l2[c].bold

\* no two registered definitions carry the same id
IdsDistinct ==
    LET regs == RegisteredDefs
    IN \A d, e \in DOMAIN regs : regs[d].attrib["id"] = regs[e].attrib["id"] => d = e

SingleCharCells(line) == \A c \in DOMAIN line : Len(line[c].text) = 1

\* two lines differ in some column once spaces are replaced by non-breaking spaces
LinesDifferAfterReplace(l1, l2) ==
    \/ DOMAIN l1 # DOMAIN l2
    \/ \E c \in DOMAIN l1 \cap DOMAIN l2 :
          \/ replace(l1[c].text) # replace(l2[c].text)
          \/ l1[c].color # l2[c].color
          \/ l1[c].bold # l2[c].bold

Anchors ==
    LET screen == Screen
    IN {a \in UNION {{<<g, k>> : k \in DOMAIN screen[g].children} : g \in DOMAIN screen} :
           /\ screen[a[1]].children[a[2]].tag = "animate"
           /\ "id" \in DOMAIN screen[a[1]].children[a[2]].attrib
           /\ screen[a[1]].children[a[2]].attrib["id"] = LAST_ANIMATION_ID}

\* C3: once the stream is exhausted, if it held a line event, exactly one animate of the
\* document carries the id anim_last: the one of the group of the last bucket; no animate
\* is tagged while buckets are still being processed.
C3_OnlyLastGroupAnchored ==
    /\ pc = "loop" => Anchors = {}
    /\ (pc = "done" /\ Len(records) >= 1) =>
           /\ Cardinality(Anchors) = 1
           /\ \A a \in Anchors :
                  /\ a[1] = Len(Screen)
                  /\ Screen[a[1]].children[a[2]].attrib["dur"]
                         = Str(records[Len(records)].duration) \o "ms"
           /\ \A g \in DOMAIN Screen : "id" \notin DOMAIN Screen[g].attrib

C3_Witness ==
    /\ pc = "done"
    /\ Len(AnimatedGroups) = 3
    /\ Anchors = {<<Len(Screen), 3>>}

\* the first indices of the maximal runs of contiguous line events with equal
\* (time, duration) among the first n line events, in stream order
RunStarts(recs, n) ==
    SelectSeq([i \in 1 .. n |-> i],
              LAMBDA i : i = 1 \/ <<recs[i].time, recs[i].duration>>
                                      # <<recs[i - 1].time, recs[i - 1].duration>>)

\* the last index of the k-th run
RunEnd(recs, n, starts, k) == IF k = Len(starts) THEN n ELSE starts[k + 1] - 1

\* the activation triggers of a begin attribute: its parts between "; "
RECURSIVE Triggers(_)
Triggers(begin) ==
    LET cuts == {i \in 1 .. (Len(begin) - 1) : SubSeq(begin, i, i + 1) = "; "}
    IN IF cuts = {} THEN <<begin>>
       ELSE LET cut == CHOOSE i \in cuts : \A j \in cuts : i <= j
            IN <<SubSeq(begin, 1, cut - 1)>> \o Triggers(SubSeq(begin, cut + 2, Len(begin)))

\* C4: the animate of every bucket's group has exactly two activation triggers: "0ms" and
\* "anim_last.end" when time = 0, "<time>ms" and "anim_last.end+<time>ms" when time > 0.
C4_TwoTriggersPerGroup ==
    run >= 1 =>
        LET groups == AnimatedGroups
            starts == RunStarts(records, pos)
        IN /\ Len(groups) = Len(starts)
           /\ \A k \in DOMAIN groups :
                  LET time == records[starts[k]].time
                      animations == AnimationsOf(groups[k])
                      triggers == Triggers(animations[1].attrib["begin"])
                  IN /\ Len(animations) = 1
                     /\ Len(triggers) = 2
                     /\ time = 0 => triggers = <<"0ms", "anim_last.end">>
                     /\ time > 0 => triggers = <<Str(time) \o "ms",
                                                 "anim_last.end+" \o Str(time) \o "ms">>

C4_Witness ==
    /\ pc = "done"
    /\ Len(AnimatedGroups) = 2
    /\ records[1].time = 0
    /\ records[pos].time > 0
    /\ Triggers(AnimationsOf(AnimatedGroups[1])[1].attrib["begin"]) = <<"0ms", "anim_last.end">>
    /\ Len(Triggers(AnimationsOf(AnimatedGroups[2])[1].attrib["begin"])) = 2

\* C5: the groups appended are the maximal runs of contiguous line events with equal
\* (time, duration), in stream order; each group holds one reference per line event of
\* its run, at y = row*cell_height, and exactly one animate, with dur = duration.
C5_OneGroupPerContiguousRun ==
    run >= 1 =>
        LET groups == AnimatedGroups
            starts == RunStarts(records, pos)
        IN /\ Len(groups) = Len(starts)
           /\ \A k \in DOMAIN groups :
                  LET first == starts[k]
                      last == RunEnd(records, pos, starts, k)
                      uses == UsesOf(groups[k])
                      animations == AnimationsOf(groups[k])
                  IN /\ Len(uses) = last - first + 1
                     /\ \A u \in DOMAIN uses :
                            uses[u].attrib["y"] = Str(records[first + u - 1].row * CellHeight)
                     /\ Len(animations) = 1
                     /\ animations[1].attrib["dur"] = Str(records[first].duration) \o "ms"

C5_Witness ==
    /\ pc = "done"
    /\ pos = 3
    /\ Len(AnimatedGroups) = 3
    /\ by_time(records[1]) = by_time(records[3])
    /\ by_time(records[1]) # by_time(records[2])
    /\ records[3].row = 1

\* the presentation duration injected into the generated style, in ms, if it is a number
InjectedDuration ==
    {d \in 0 .. MaxRecords * 4 : trees[run].generated_style[6] = Str(d) \o "ms"}

\* the end time time + duration of the i-th line event's bucket
EndOf(i) == records[i].time + records[i].duration

\* C12 as stated: for a stream with a line event, the presentation duration injected into
\* the document is at least time + duration of every bucket processed.
C12_DurationCoversEveryBucket ==
    (pc = "done" /\ Len(records) >= 1) =>
        /\ InjectedDuration # {}
        /\ \A d \in InjectedDuration : \A i \in 1 .. Len(records) : d >= EndOf(i)

\* C12 amended: the presentation duration injected is time + duration of the last bucket
\* processed, which is the end time of the loop-anchor animate (its begin is the last
\* bucket's time, its dur the last bucket's duration); an earlier bucket may end later.
C12_DurationIsLastBucketEnd ==
    (pc = "done" /\ Len(records) >= 1) =>
        LET last == records[Len(records)]
        IN /\ InjectedDuration = {last.time + last.duration}
           /\ animation_duration = Some(last.time + last.duration)
           /\ \A a \in Anchors :
                  LET anchor == Screen[a[1]].children[a[2]]
                  IN /\ Triggers(anchor.attrib["begin"])[1] = Str(last.time) \o "ms"
                     /\ anchor.attrib["dur"] = Str(last.duration) \o "ms"

C12_Witness ==
    /\ pc = "done"
    /\ Len(records) = 2
    /\ records[1].time < records[2].time
    /\ EndOf(1) > EndOf(2)
    /\ InjectedDuration = {EndOf(2)}

-----------------------------------------------------------------------------
(* Claims about successive invocations (SpecRuns) *)

\* C6: no state is shared between invocations: every tree returned so far, and the one
\* being built, still holds its base-layer background rect among the children of its
\* screen.
C6_EveryTreeKeepsBackground ==
    \A r \in DOMAIN trees : \E i \in DOMAIN trees[r].screen : trees[r].screen[i] = BG_RECT_TAG

-----------------------------------------------------------------------------
(* resize_template on well-formed and malformed templates (SpecTemplate) *)

\* an attribute dict with the given names, without those whose value is None
MakeAttrib(names, values) ==
    [n \in {names[i] : i \in {j \in DOMAIN names : values[j] # None}} |->
        values[CHOOSE i \in DOMAIN names : names[i] = n][1]]

Option(S) == {None} \cup {Some(v) : v \in S}

ViewBoxes == {"0 0 8 17", "0,0,8,17", "0 0 8.5 17"}
Widths == {"8", "8px"}
Heights == {"17", "17.5"}
Dimensions == {"1", "0", "-1", "x"}

Frames ==
    {MakeAttrib(<<"viewBox", "width", "height">>, <<vb, w, h>>) :
        vb \in Option(ViewBoxes), w \in Option(Widths), h \in Option(Heights)}

Geometries ==
    {MakeAttrib(<<"columns", "rows">>, <<c, r>>) :
        c \in Option(Dimensions), r \in Option(Dimensions)}

Templates ==
    {[parses |-> FALSE, root |-> NoAttrib, settings |-> None, screen |-> None]}
    \cup [parses : {TRUE},
          root : Frames,
          settings : Option([geometry : Option(Geometries)]),
          screen : Option(Frames)]

ScreenSizes == {<<1, 1>>, <<2, 3>>}

TemplateInit ==
    /\ data \in Templates
    /\ screen_size \in ScreenSizes
    /\ resized = None
    /\ LineIdle
    /\ ColorIdle
    /\ RenderIdle

ResizeTemplate ==
    /\ resized = None
    /\ resized' = Some(resize_template(data, screen_size[1], screen_size[2]))
    /\ UNCHANGED <<data, screen_size, line_vars, color_vars, render_vars>>

TemplateNext == ResizeTemplate

SpecTemplate == TemplateInit /\ [][TemplateNext]_vars

\* the string is not the decimal writing of an integer
NotIntegral(s) == Raised(int(s))

\* the sizing metadata is absent, non-integral or non-positive
BadMetadata(t) ==
    \/ t.settings = None
    \/ t.settings[1].geometry = None
    \/ \E n \in {"columns", "rows"} :
           LET g == t.settings[1].geometry[1]
           IN \/ n \notin DOMAIN g
              \/ NotIntegral(g[n])
              \/ int(g[n]).return <= 0

\* a sizing attribute of the frame is present but not expressible as integers
BadSizing(attrib) ==
    \/ \E n \in {"width", "height"} : n \in DOMAIN attrib /\ NotIntegral(attrib[n])
    \/ /\ "viewBox" \in DOMAIN attrib
       /\ \E item \in Range(split(str_replace(attrib["viewBox"], ",", SPACE))) :
              NotIntegral(item)

Malformed(t) ==
    \/ BadMetadata(t)
    \/ t.screen = None
    \/ BadSizing(t.root)
    \/ t.screen # None /\ BadSizing(t.screen[1])

\* C11: resize_template fails with TemplateError, and with no other error kind, for every
\* malformed template: sizing metadata absent, non-integral or non-positive; inner frame
\* "screen" missing; or a sizing attribute of a frame (width, height, viewBox) present but
\* not expressible as integers.
C11_MalformedRaisesTemplateError ==
    (resized # None /\ Malformed(data)) =>
        resized[1] = Raise("TemplateError")

====
